---- MODULE Spec2Model ----
(***************************************************************************)
(* Model of notebooks/06-03-science-images-calibration-examples.ipynb.     *)
(*                                                                         *)
(* Two specifications share the module:                                    *)
(*   SpecLookup  one call of find_nearest_dark_exposure on inputs drawn    *)
(*               from bounded sets;                                        *)
(*   Spec        one run of an example (1 or 2): the cell that builds the  *)
(*               dark / flat mappings followed by the calibration loop,    *)
(*               one action per statement of the loop body.                *)
(*                                                                         *)
(* Exposure times are integers in tenths of a second (300.2 s is 3002).    *)
(* A FITS header is a record whose domain is the set of keywords present.  *)
(* A ccdproc call is opaque: it returns its first argument with one more   *)
(* entry in `history` naming the operation and the frame it was given.     *)
(***************************************************************************)
EXTENDS Integers, Sequences, FiniteSets, TLC

VARIABLES
    fn_in,          \* arguments of the find_nearest_dark_exposure call
    fn_out,         \* its outcome, Pending until the call has run
    example,        \* which example's cells are running (1 or 2)
    ifc_raw,        \* files of the raw collection, in listing order
    ifc_reduced,    \* combined calibration frames of the reduced collection
    combined_darks, \* dict exposure time -> dark, in insertion order
    combined_flats, \* dict filter -> flat, in insertion order
    all_reds,       \* list of calibrated images
    light_ccds,     \* list of raw science images
    idx,            \* number of science images the for loop has yielded
    file_name,      \* loop variable
    reduced,        \* loop variable
    closest_dark,   \* loop variable
    written,        \* files written under reduced_path, in order
    pc,             \* statement about to run
    error           \* exception that ended the run, "" if none

vars == <<fn_in, fn_out, example, ifc_raw, ifc_reduced, combined_darks,
          combined_flats, all_reds, light_ccds, idx, file_name, reduced,
          closest_dark, written, pc, error>>

loopVars == <<example, ifc_raw, ifc_reduced, combined_darks, combined_flats,
              all_reds, light_ccds, idx, file_name, reduced, closest_dark,
              written, pc, error>>

(***************************************************************************)
(* Bounds                                                                  *)
(***************************************************************************)
MaxFiles == 2
MaxDarks == 2
MaxCands == 3

\* tolerance=0.5 seconds, in tenths of a second
DefaultTolerance == 5

\* Exposure times of the candidate darks / of the images handed to the lookup.
CandTimes == {1000, 2998, 3000, 3006}
TargetTimes == {2995, 3000, 3002, 3100}
\* <<>> is None, <<t>> is the number t
Tolerances == {<<>>, <<0>>, <<DefaultTolerance>>, <<100>>}

\* Exposure times in the headers of the loop's science images and darks.
SciTimes == {1002, 3004}
DarkTimes == {1000, 3000, 3008}
Filters == {"g", "i"}
\* Filters of the combined flats on disk, in listing order.
FlatOrder == <<"g", "i">>
Names == <<"sci_a.fit", "sci_b.fit", "sci_c.fit", "sci_d.fit">>

(***************************************************************************)
(* Helpers                                                                 *)
(***************************************************************************)
NoDupSeqs(S, n) ==
    UNION {{s \in [1..k -> S] : \A i, j \in 1..k : i # j => s[i] # s[j]}
           : k \in 0..n}

Pending == [kind |-> "pending", args |-> <<>>]
Return(v) == [kind |-> "return", args |-> <<v>>]
Raise(k, a) == [kind |-> k, args |-> a]

(***************************************************************************)
(* find_nearest_dark_exposure                                              *)
(***************************************************************************)
SignedDiff(a, b) == a - b

\* np.abs(a - b)
AbsDiff(a, b) == IF a >= b THEN a - b ELSE b - a

RECURSIVE ArgMinFrom(_, _, _)
ArgMinFrom(s, i, best) ==
    IF i > Len(s) THEN best
    ELSE ArgMinFrom(s, i + 1, IF s[i] < s[best] THEN i ELSE best)

RECURSIVE ArgMinLastFrom(_, _, _)
ArgMinLastFrom(s, i, best) ==
    IF i > Len(s) THEN best
    ELSE ArgMinLastFrom(s, i + 1, IF s[i] <= s[best] THEN i ELSE best)

ArgMinLast(s) == ArgMinLastFrom(s, 2, 1)

\* np.argmin: index of the first occurrence of the minimum
ArgMin(s) == ArgMinFrom(s, 2, 1)

ExceedsGE(diff, tolerance) == tolerance # <<>> /\ diff >= tolerance[1]

ExceedsNoneAsDefault(diff, tolerance) ==
    diff > (IF tolerance = <<>> THEN DefaultTolerance ELSE tolerance[1])

\* tolerance is not None and np.abs(...) > tolerance
Exceeds(diff, tolerance) == tolerance # <<>> /\ diff > tolerance[1]

\* The raise statement: the arguments of format() are evaluated first, and
\* a_flat is a name this notebook never binds, so NameError is what is raised.
RaiseNoDark(closest, image) == Raise("NameError", <<>>)

find_nearest_dark_exposure(image, dark_exposure_times, tolerance) ==
    IF "exptime" \notin DOMAIN image.header
    THEN Raise("KeyError", <<>>)
    ELSE IF dark_exposure_times = <<>>
    THEN Raise("ValueError", <<>>)
    ELSE
      LET dark_exposures == dark_exposure_times
          diffs == [i \in DOMAIN dark_exposures |->
                       AbsDiff(dark_exposures[i], image.header["exptime"])]
          closest_dark_exposure == dark_exposures[ArgMin(diffs)]
      IN IF Exceeds(AbsDiff(image.header["exptime"], closest_dark_exposure),
                    tolerance)
         THEN RaiseNoDark(closest_dark_exposure, image)
         ELSE Return(closest_dark_exposure)

(***************************************************************************)
(* SpecLookup: one call of the function                                    *)
(***************************************************************************)
LookupImages ==
    {[header |-> [exptime |-> t, filter |-> "g"]] : t \in TargetTimes}
    \cup {[header |-> [filter |-> "g"]]}

Idle == [k \in {} |-> 0]

InitLookup ==
    /\ fn_in \in [image : LookupImages,
                  dark_exposure_times : NoDupSeqs(CandTimes, MaxCands),
                  tolerance : Tolerances]
    /\ fn_out = Pending
    /\ example = 0
    /\ ifc_raw = <<>>
    /\ ifc_reduced = Idle
    /\ combined_darks = <<>>
    /\ combined_flats = <<>>
    /\ all_reds = <<>>
    /\ light_ccds = <<>>
    /\ idx = 0
    /\ file_name = ""
    /\ reduced = Idle
    /\ closest_dark = 0
    /\ written = <<>>
    /\ pc = "lookup"
    /\ error = ""

Call ==
    /\ pc = "lookup"
    /\ fn_out = Pending
    /\ fn_out' = find_nearest_dark_exposure(fn_in.image,
                                            fn_in.dark_exposure_times,
                                            fn_in.tolerance)
    /\ UNCHANGED <<fn_in, loopVars>>

NextLookup == Call

SpecLookup == InitLookup /\ [][NextLookup]_vars

(***************************************************************************)
(* The example cells: names the cells bind                                 *)
(***************************************************************************)
\* science_imagetyp = 'object' (Example 1) / 'light' (Example 2)
science_imagetyp(ex) == IF ex = 1 THEN "object" ELSE "light"

\* exposure = 'exptime' (Example 1) / 'exposure' (Example 2)
exposure(ex) == IF ex = 1 THEN "exptime" ELSE "exposure"

\* exposure_time= argument of the subtract_dark call: the variable `exposure`
\* in Example 1, the literal 'exptime' in Example 2
DarkKeyword(ex) == IF ex = 1 THEN exposure(ex) ELSE "exptime"

(***************************************************************************)
(* The collections                                                         *)
(***************************************************************************)
\* Headers a science image can carry.  The filter is always present; in
\* Example 1 the exposure time is under 'exptime' or missing; in Example 2
\* it is under 'exposure', and 'exptime' is missing, equal or different.
ScienceHeaders(ex) ==
    IF ex = 1
    THEN {[filter |-> f] : f \in Filters}
         \cup {[exptime |-> t, filter |-> f] : t \in SciTimes, f \in Filters}
    ELSE {[exposure |-> e, filter |-> f] : e \in SciTimes, f \in Filters}
         \cup {[exposure |-> e, exptime |-> t, filter |-> f]
                 : e \in SciTimes, t \in SciTimes, f \in Filters}

\* A raw file that is not a science image (its header is never read).
OtherHeader == [exposure |-> 3004, exptime |-> 3004, filter |-> "g"]

RawKinds(ex) ==
    {[imagetyp |-> science_imagetyp(ex), header |-> h] : h \in ScienceHeaders(ex)}
    \cup {[imagetyp |-> "other", header |-> OtherHeader]}

RawCollections(ex) ==
    UNION {{[i \in 1..n |-> [name |-> Names[i],
                             imagetyp |-> c[i].imagetyp,
                             header |-> c[i].header]]
              : c \in [1..n -> RawKinds(ex)]}
           : n \in 0..MaxFiles}

DarkCcd(ex, t) == [imagetyp |-> "dark", header |-> (exposure(ex) :> t)]
FlatCcd(f) == [imagetyp |-> "flat", header |-> [filter |-> f]]
BiasCcd == [imagetyp |-> "bias", header |-> Idle]
NoFrame == [imagetyp |-> "none", header |-> Idle]

ReducedCollections(ex) ==
    {[darks |-> [i \in DOMAIN d |-> DarkCcd(ex, d[i])],
      flats |-> [i \in DOMAIN f |-> FlatCcd(f[i])],
      bias |-> <<BiasCcd>>]
       : d \in NoDupSeqs(DarkTimes, MaxDarks),
         f \in {SubSeq(FlatOrder, 1, k) : k \in 0..Len(FlatOrder)}}

AllFiles(files, ex) == files

\* ifc_raw.ccds(imagetyp=science_imagetyp, return_fname=True)
ScienceFiles(files, ex) ==
    SelectSeq(files, LAMBDA f : f.imagetyp = science_imagetyp(ex))

\* the CCDData read from a file
Ccd(f) == [source |-> f.name, header |-> f.header, history |-> <<>>]

(***************************************************************************)
(* Dictionaries: a sequence of [key, value] in insertion order             *)
(***************************************************************************)
HasKey(d, k) == \E i \in DOMAIN d : d[i].key = k
Keys(d) == [i \in DOMAIN d |-> d[i].key]

\* {ccd.header[kw]: ccd for ccd in ccds}
RECURSIVE DictFrom(_, _)
DictFrom(ccds, kw) ==
    IF ccds = <<>> THEN <<>>
    ELSE LET rest == DictFrom(SubSeq(ccds, 1, Len(ccds) - 1), kw)
             last == ccds[Len(ccds)]
             k == last.header[kw]
         IN IF HasKey(rest, k)
            THEN [i \in DOMAIN rest |->
                    IF rest[i].key = k THEN [key |-> k, value |-> last]
                    ELSE rest[i]]
            ELSE Append(rest, [key |-> k, value |-> last])

GetitemOrFirst(d, k) ==
    IF HasKey(d, k)
    THEN Return((CHOOSE i \in DOMAIN d : d[i].key = k))
    ELSE IF d # <<>> THEN Return(1) ELSE Raise("KeyError", <<>>)

\* d[k]: the position of k in d, or KeyError
Getitem(d, k) ==
    IF HasKey(d, k)
    THEN Return((CHOOSE i \in DOMAIN d : d[i].key = k))
    ELSE Raise("KeyError", <<>>)

(***************************************************************************)
(* ccdproc calls, opaque                                                   *)
(***************************************************************************)
Step(op, frame, kw) == [op |-> op, frame |-> frame, exposure_time |-> kw]
Apply(ccd, op, frame, kw) ==
    [ccd EXCEPT !.history = Append(@, Step(op, frame, kw))]

(***************************************************************************)
(* The calibration loops                                                   *)
(***************************************************************************)
Body1FlatBeforeDark ==
    <<"subtract_overscan", "trim_image", "flat_correct", "find_dark",
      "subtract_dark", "append", "write">>

\* statements of the Example 1 loop body, in order
Body1 ==
    <<"subtract_overscan", "trim_image", "find_dark", "subtract_dark",
      "flat_correct", "append", "write">>

Body2DarkBeforeBias ==
    <<"trim_image", "find_dark", "subtract_dark", "subtract_bias",
      "flat_correct", "append", "write">>

\* statements of the Example 2 loop body, in order
Body2 ==
    <<"trim_image", "subtract_bias", "find_dark", "subtract_dark",
      "flat_correct", "append", "write">>

Body(ex) == IF ex = 1 THEN Body1 ELSE Body2

\* the statement after `stmt`, or the loop header after the last one
After(ex, stmt) ==
    LET b == Body(ex)
        k == CHOOSE i \in DOMAIN b : b[i] = stmt
    IN IF k = Len(b) THEN "for" ELSE b[k + 1]

light == light_ccds[Len(light_ccds)]

Init ==
    /\ fn_in = Idle
    /\ fn_out = Pending
    /\ example \in {1, 2}
    /\ ifc_raw \in RawCollections(example)
    /\ ifc_reduced \in ReducedCollections(example)
    /\ combined_darks = <<>>
    /\ combined_flats = <<>>
    /\ all_reds = <<>>
    /\ light_ccds = <<>>
    /\ idx = 0
    /\ file_name = ""
    /\ reduced = Idle
    /\ closest_dark = 0
    /\ written = <<>>
    /\ pc = "setup"
    /\ error = ""

Fail(kind) ==
    /\ pc' = "failed"
    /\ error' = kind

\* the cell that builds combined_darks and combined_flats, and the two
\* list initialisations that open the loop cell
Setup ==
    /\ pc = "setup"
    /\ combined_darks' = DictFrom(ifc_reduced.darks, exposure(example))
    /\ combined_flats' = DictFrom(ifc_reduced.flats, "filter")
    /\ all_reds' = <<>>
    /\ light_ccds' = <<>>
    /\ pc' = "for"
    /\ UNCHANGED <<fn_in, fn_out, example, ifc_raw, ifc_reduced, idx,
                   file_name, reduced, closest_dark, written, error>>

\* for light, file_name in ifc_raw.ccds(...): light_ccds.append(light)
For ==
    /\ pc = "for"
    /\ LET sci == ScienceFiles(ifc_raw, example)
       IN IF idx < Len(sci)
          THEN /\ idx' = idx + 1
               /\ file_name' = sci[idx + 1].name
               /\ light_ccds' = Append(light_ccds, Ccd(sci[idx + 1]))
               /\ pc' = Body(example)[1]
          ELSE /\ pc' = "done"
               /\ UNCHANGED <<idx, file_name, light_ccds>>
    /\ UNCHANGED <<fn_in, fn_out, example, ifc_raw, ifc_reduced,
                   combined_darks, combined_flats, all_reds, reduced,
                   closest_dark, written, error>>

\* reduced = ccdp.subtract_overscan(light, overscan=light[:, 2055:], median=True)
SubtractOverscan ==
    /\ pc = "subtract_overscan"
    /\ reduced' = Apply(light, "subtract_overscan", NoFrame, "")
    /\ pc' = After(example, "subtract_overscan")
    /\ UNCHANGED <<fn_in, fn_out, example, ifc_raw, ifc_reduced,
                   combined_darks, combined_flats, all_reds, light_ccds, idx,
                   file_name, closest_dark, written, error>>

\* reduced = ccdp.trim_image(reduced[:, :2048])   (Example 1)
\* reduced = ccdp.trim_image(light[:, :4096])     (Example 2)
TrimImage ==
    /\ pc = "trim_image"
    /\ reduced' = Apply(IF example = 1 THEN reduced ELSE light,
                        "trim_image", NoFrame, "")
    /\ pc' = After(example, "trim_image")
    /\ UNCHANGED <<fn_in, fn_out, example, ifc_raw, ifc_reduced,
                   combined_darks, combined_flats, all_reds, light_ccds, idx,
                   file_name, closest_dark, written, error>>

\* reduced = ccdp.subtract_bias(reduced, combined_bias)
SubtractBias ==
    /\ pc = "subtract_bias"
    /\ reduced' = Apply(reduced, "subtract_bias", ifc_reduced.bias[1], "")
    /\ pc' = After(example, "subtract_bias")
    /\ UNCHANGED <<fn_in, fn_out, example, ifc_raw, ifc_reduced,
                   combined_darks, combined_flats, all_reds, light_ccds, idx,
                   file_name, closest_dark, written, error>>

\* closest_dark = find_nearest_dark_exposure(reduced, combined_darks.keys())
FindDark ==
    /\ pc = "find_dark"
    /\ LET out == find_nearest_dark_exposure(reduced, Keys(combined_darks),
                                             <<DefaultTolerance>>)
       IN IF out.kind = "return"
          THEN /\ closest_dark' = out.args[1]
               /\ pc' = After(example, "find_dark")
               /\ error' = error
          ELSE /\ Fail(out.kind)
               /\ closest_dark' = closest_dark
    /\ UNCHANGED <<fn_in, fn_out, example, ifc_raw, ifc_reduced,
                   combined_darks, combined_flats, all_reds, light_ccds, idx,
                   file_name, reduced, written>>

\* reduced = ccdp.subtract_dark(reduced, combined_darks[closest_dark], ...)
SubtractDark ==
    /\ pc = "subtract_dark"
    /\ LET got == Getitem(combined_darks, closest_dark)
       IN IF got.kind = "return"
          THEN /\ reduced' = Apply(reduced, "subtract_dark",
                                   combined_darks[got.args[1]].value,
                                   DarkKeyword(example))
               /\ pc' = After(example, "subtract_dark")
               /\ error' = error
          ELSE /\ Fail(got.kind)
               /\ reduced' = reduced
    /\ UNCHANGED <<fn_in, fn_out, example, ifc_raw, ifc_reduced,
                   combined_darks, combined_flats, all_reds, light_ccds, idx,
                   file_name, closest_dark, written>>

\* good_flat = combined_flats[reduced.header['filter']]
\* reduced = ccdp.flat_correct(reduced, good_flat)
FlatCorrect ==
    /\ pc = "flat_correct"
    /\ LET got == Getitem(combined_flats, reduced.header["filter"])
       IN IF got.kind = "return"
          THEN /\ reduced' = Apply(reduced, "flat_correct",
                                   combined_flats[got.args[1]].value, "")
               /\ pc' = After(example, "flat_correct")
               /\ error' = error
          ELSE /\ Fail(got.kind)
               /\ reduced' = reduced
    /\ UNCHANGED <<fn_in, fn_out, example, ifc_raw, ifc_reduced,
                   combined_darks, combined_flats, all_reds, light_ccds, idx,
                   file_name, closest_dark, written>>

\* all_reds.append(reduced)
AppendReduced ==
    /\ pc = "append"
    /\ all_reds' = Append(all_reds, reduced)
    /\ pc' = After(example, "append")
    /\ UNCHANGED <<fn_in, fn_out, example, ifc_raw, ifc_reduced,
                   combined_darks, combined_flats, light_ccds, idx, file_name,
                   reduced, closest_dark, written, error>>

\* reduced.write(reduced_path / file_name)
Write ==
    /\ pc = "write"
    /\ written' = Append(written, [name |-> file_name, ccd |-> reduced])
    /\ pc' = After(example, "write")
    /\ UNCHANGED <<fn_in, fn_out, example, ifc_raw, ifc_reduced,
                   combined_darks, combined_flats, all_reds, light_ccds, idx,
                   file_name, reduced, closest_dark, error>>

Next ==
    \/ Setup
    \/ For
    \/ SubtractOverscan
    \/ TrimImage
    \/ SubtractBias
    \/ FindDark
    \/ SubtractDark
    \/ FlatCorrect
    \/ AppendReduced
    \/ Write

Spec == Init /\ [][Next]_vars

(***************************************************************************)
(* Properties of find_nearest_dark_exposure (checked under SpecLookup)     *)
(***************************************************************************)
\* Distance as the claims mean it, independent of the code's AbsDiff.
Dist(a, b) == IF a - b >= 0 THEN a - b ELSE b - a

FnTarget == fn_in.image.header["exptime"]
FnCands == fn_in.dark_exposure_times
FnCandSet == {FnCands[i] : i \in DOMAIN FnCands}
FnCalled == fn_out # Pending
\* The call has a target and at least one candidate.
FnDefined == "exptime" \in DOMAIN fn_in.image.header /\ FnCands # <<>>
FnReturned == FnCalled /\ fn_out.kind = "return"
FnValue == fn_out.args[1]
FnMinDist == CHOOSE d \in {Dist(c, FnTarget) : c \in FnCandSet} :
                 \A c \in FnCandSet : d <= Dist(c, FnTarget)
FnIsClosest(v) ==
    /\ v \in FnCandSet
    /\ \A c \in FnCandSet : Dist(v, FnTarget) <= Dist(c, FnTarget)
FnFirstMin == CHOOSE i \in DOMAIN FnCands :
                 /\ Dist(FnCands[i], FnTarget) = FnMinDist
                 /\ \A j \in 1..(i - 1) : Dist(FnCands[j], FnTarget) > FnMinDist

\* C1: whenever the function returns a value, the value is one of the
\* candidates and no candidate is nearer to the target; when the target is
\* itself a candidate, that candidate is returned and no error is raised,
\* for every tolerance >= 0 and for tolerance None.
C1_ReturnsNearestCandidate ==
    /\ (FnDefined /\ FnReturned) => FnIsClosest(FnValue)
    /\ (FnDefined /\ FnCalled /\ FnTarget \in FnCandSet)
          => fn_out = Return(FnTarget)

C1_Witness ==
    /\ FnDefined /\ FnReturned
    /\ Len(FnCands) >= 2
    /\ FnTarget \in FnCandSet
    /\ FnCands[1] # FnTarget
    /\ fn_in.tolerance = <<0>>
    /\ FnValue = FnTarget

\* C2: when tolerance is set and the smallest distance exceeds it, the call
\* ends in the RuntimeError the function constructs, carrying the closest
\* candidate exposure time and the image's exposure time.
C2_FailsWithDescriptiveError ==
    (FnDefined /\ FnCalled /\ fn_in.tolerance # <<>>
        /\ FnMinDist > fn_in.tolerance[1])
      => fn_out = Raise("RuntimeError", <<FnCands[FnFirstMin], FnTarget>>)

\* C3: with tolerance None the error path is never taken: the call returns
\* the closest candidate, however far from the target it is.
C3_NoneNeverFails ==
    (FnDefined /\ FnCalled /\ fn_in.tolerance = <<>>)
      => (fn_out.kind = "return" /\ FnIsClosest(FnValue))

C3_Witness ==
    /\ FnDefined /\ FnReturned
    /\ fn_in.tolerance = <<>>
    /\ FnMinDist > 100
    /\ FnIsClosest(FnValue)

\* C4: the call fails exactly when tolerance is not None and the smallest
\* distance is strictly greater than tolerance; a distance equal to the
\* tolerance, or smaller, returns the closest candidate.
C4_FailsIffStrictlyGreater ==
    (FnDefined /\ FnCalled)
      => /\ (fn_out.kind # "return")
              <=> (fn_in.tolerance # <<>> /\ FnMinDist > fn_in.tolerance[1])
         /\ (fn_out.kind = "return") => FnIsClosest(FnValue)

C4_Witness ==
    /\ FnDefined /\ FnReturned
    /\ fn_in.tolerance = <<DefaultTolerance>>
    /\ FnMinDist = DefaultTolerance
    /\ FnIsClosest(FnValue)

\* C9: when several candidates are equally near the target and the call
\* returns, it returns the first of them in the order of the candidate
\* collection.
C9_FirstOfTiedCandidates ==
    (FnDefined /\ FnReturned) => FnValue = FnCands[FnFirstMin]

C9_Witness ==
    /\ FnDefined /\ FnReturned
    /\ \E i, j \in DOMAIN FnCands :
          /\ i < j
          /\ Dist(FnCands[i], FnTarget) = FnMinDist
          /\ Dist(FnCands[j], FnTarget) = FnMinDist
          /\ FnValue = FnCands[i]

(***************************************************************************)
(* Properties of the calibration loops (checked under Spec)                *)
(***************************************************************************)
Ops(ccd) == [i \in DOMAIN ccd.history |-> ccd.history[i].op]
DarkKeySet == {combined_darks[i].key : i \in DOMAIN combined_darks}
FlatKeySet == {combined_flats[i].key : i \in DOMAIN combined_flats}
\* The science images of the raw collection, by their image type.
Science ==
    SelectSeq(ifc_raw,
              LAMBDA f : f.imagetyp = (IF example = 1 THEN "object" ELSE "light"))
InBody == pc \notin {"lookup", "setup", "for", "done", "failed"}

\* The image's header has an exposure time and a dark lies within the
\* default tolerance of it.
HasDarkFor(h) ==
    /\ "exptime" \in DOMAIN h
    /\ \E d \in DarkKeySet : Dist(d, h["exptime"]) <= DefaultTolerance
HasFlatFor(h) == h["filter"] \in FlatKeySet

\* C5: an image is appended to all_reds and written only if a dark lies
\* within tolerance of its exposure time and a flat exists for its filter;
\* when either is missing for a science image the run stops at that image:
\* nothing is written for it and no later image is processed or written.
C5_WrittenOnlyWithDarkAndFlat ==
    /\ \A i \in DOMAIN all_reds :
          HasDarkFor(all_reds[i].header) /\ HasFlatFor(all_reds[i].header)
    /\ \A i \in DOMAIN written :
          HasDarkFor(written[i].ccd.header) /\ HasFlatFor(written[i].ccd.header)
    /\ (InBody /\ ~(HasDarkFor(light.header) /\ HasFlatFor(light.header)))
          => /\ pc \notin {"append", "write"}
             /\ \A i \in DOMAIN written : written[i].name # file_name
    /\ pc = "failed"
          => /\ ~ENABLED Next
             /\ ~(HasDarkFor(light.header) /\ HasFlatFor(light.header))
             /\ Len(light_ccds) = idx
             /\ Len(written) = idx - 1
             /\ Len(all_reds) = idx - 1
             /\ \A i \in DOMAIN written : written[i].name # file_name
    /\ pc = "done"
          => \A i \in DOMAIN Science :
                HasDarkFor(Science[i].header) /\ HasFlatFor(Science[i].header)

C5_Witness ==
    /\ pc = "failed"
    /\ idx = 2
    /\ Len(Science) = 2
    /\ Len(written) = 1
    /\ written[1].name = Science[1].name
    /\ HasDarkFor(light.header)
    /\ ~HasFlatFor(light.header)

\* The dark handed to subtract_dark is the entry of combined_darks nearest
\* to the exposure time find_nearest_dark_exposure read from the image.
DarkStepOk(ccd, st) ==
    /\ st.frame.imagetyp = "dark"
    /\ \E i \in DOMAIN combined_darks :
          /\ combined_darks[i].value = st.frame
          /\ \A d \in DarkKeySet :
                Dist(combined_darks[i].key, ccd.header["exptime"])
                   <= Dist(d, ccd.header["exptime"])
FlatStepOk(ccd, st) ==
    /\ st.frame.imagetyp = "flat"
    /\ st.frame.header["filter"] = ccd.header["filter"]

Calibrated1(ccd) ==
    /\ Ops(ccd) = <<"subtract_overscan", "trim_image", "subtract_dark",
                    "flat_correct">>
    /\ DarkStepOk(ccd, ccd.history[3])
    /\ FlatStepOk(ccd, ccd.history[4])

\* C6: in Example 1 every image written went through subtract overscan,
\* trim, subtract dark, flat correct, in that order, each step applied to
\* the previous step's output; no bias is subtracted; the image is written
\* only after the flat correction.
C6_Example1Order ==
    example = 1 =>
      /\ \A i \in DOMAIN written :
            /\ Calibrated1(written[i].ccd)
            /\ written[i].ccd.source = written[i].name
      /\ \A i \in DOMAIN all_reds : Calibrated1(all_reds[i])
      /\ pc = "write" => (Calibrated1(reduced) /\ reduced.source = file_name)
      /\ InBody /\ reduced # Idle =>
            \A k \in DOMAIN reduced.history :
               reduced.history[k].op # "subtract_bias"

C6_Witness ==
    /\ example = 1
    /\ Len(written) = 2
    /\ Calibrated1(written[2].ccd)
    /\ Cardinality(DarkKeySet) = 2
    /\ written[1].ccd.history[3].frame # written[2].ccd.history[3].frame

Calibrated2(ccd) ==
    /\ Ops(ccd) = <<"trim_image", "subtract_bias", "subtract_dark",
                    "flat_correct">>
    /\ ccd.history[2].frame = ifc_reduced.bias[1]
    /\ DarkStepOk(ccd, ccd.history[3])
    /\ FlatStepOk(ccd, ccd.history[4])

\* C7: in Example 2 every image written went through trim, subtract the
\* combined bias, subtract the dark nearest in exposure time, flat correct
\* with the flat of the image's filter, in that order, each step after the
\* trim applied to the previous step's output; no overscan is subtracted;
\* the bias is subtracted before the dark.
C7_Example2Order ==
    example = 2 =>
      /\ \A i \in DOMAIN written :
            /\ Calibrated2(written[i].ccd)
            /\ written[i].ccd.source = written[i].name
      /\ \A i \in DOMAIN all_reds : Calibrated2(all_reds[i])
      /\ pc = "write" => (Calibrated2(reduced) /\ reduced.source = file_name)
      /\ InBody /\ reduced # Idle =>
            \A k \in DOMAIN reduced.history :
               /\ reduced.history[k].op # "subtract_overscan"
               /\ reduced.history[k].op = "subtract_dark"
                     => \E j \in 1..(k - 1) :
                           reduced.history[j].op = "subtract_bias"

C7_Witness ==
    /\ example = 2
    /\ Len(written) = 2
    /\ Calibrated2(written[2].ccd)
    /\ Cardinality(DarkKeySet) = 2
    /\ written[1].ccd.history[3].frame # written[2].ccd.history[3].frame

\* C8: after a loop that ends without error, the files written are the
\* science files of the raw collection, each once and under its own name,
\* and the image written under a name is the calibration of the raw image
\* of that name.
C8_WrittenUnderOwnName ==
    pc = "done" =>
      /\ Len(written) = Len(Science)
      /\ \A i \in DOMAIN written :
            /\ written[i].name = Science[i].name
            /\ written[i].ccd.source = Science[i].name
            /\ written[i].ccd.header = Science[i].header
            /\ written[i].ccd.history # <<>>
      /\ \A i, j \in DOMAIN written :
            written[i].name = written[j].name => i = j

C8_Witness ==
    /\ pc = "done"
    /\ Len(written) >= 1
    /\ Len(ifc_raw) > Len(written)
    /\ written[1].name = Science[1].name
    /\ written[1].name # ifc_raw[1].name

\* C10: in each example the exposure time used to pick the dark, and to
\* subtract it, is read under the example's `exposure` keyword, the keyword
\* the darks are keyed by: the dark of every calibrated image is the one
\* nearest to the image's header[exposure], and subtract_dark is given that
\* keyword.
C10_SameExposureKeyword ==
    \A i \in DOMAIN all_reds :
       LET ccd == all_reds[i]
           dark == CHOOSE k \in DOMAIN ccd.history :
                      ccd.history[k].op = "subtract_dark"
       IN /\ ccd.history[dark].exposure_time = exposure(example)
          /\ exposure(example) \in DOMAIN ccd.header
          /\ \A d \in DarkKeySet :
                Dist(ccd.history[dark].frame.header[exposure(example)],
                     ccd.header[exposure(example)])
                  <= Dist(d, ccd.header[exposure(example)])

====
